---- MODULE Spec2Model ----
(***************************************************************************)
(* Secure Notes API (src/main.py): credential store, password hashing,     *)
(* bearer tokens and the owner-scoped note repository, as a state machine. *)
(* One action per request handler; the clock is a separate action.         *)
(***************************************************************************)
EXTENDS Integers, Sequences, FiniteSets, TLC

(***************************************************************************)
(* Bounds of the model.                                                    *)
(***************************************************************************)
TicksPerSecond == 2      \* clock resolution: a tick is a whole number of ms
MaxJitter == 1           \* clock readings within this many ticks of the token lifetime
MaxPw == 2               \* distinct passwords of each length class
MaxSalt == 1             \* distinct bcrypt salts gensalt() may draw
MaxText == 1             \* distinct replacement values of each note field
MaxNotes == 2            \* notes ever inserted
MaxTokens == 2           \* tokens of one identity that clients hold at a time

(***************************************************************************)
(* Program and library constants.                                          *)
(***************************************************************************)
JWT_EXPIRATION_HOURS == 24
SecondsPerHour == 3600
BcryptMaxBytes == 72     \* bcrypt hashes only the first 72 bytes of the key
ObjectIdHexLen == 24     \* an ObjectId string is 24 hexadecimal digits
FirstOid == 10           \* value of the first ObjectId the store generates

JWT_SECRET_KEY == "server-key"
JWT_ALGORITHM == "HS256"
OtherKey == "attacker-key"

Usernames == {"alice", "bob"}

None == "None"           \* Python's None for Optional[str] fields

LifetimeTicks == JWT_EXPIRATION_HOURS * SecondsPerHour * TicksPerSecond

\* Clock readings: every tick around 0 and around one token lifetime, or
\* only two readings more than a lifetime apart.
FineClock == (0..MaxJitter) \cup ((LifetimeTicks - MaxJitter)..(LifetimeTicks + MaxJitter))
CoarseClock == {0, LifetimeTicks + 1}

\* A later read of datetime.utcnow() inside one handler: the same reading or
\* the next tick.
LaterReads(clock, t) == { r \in clock : r >= t /\ r <= t + 1 }

(***************************************************************************)
(* Strings are sequences of characters; a password is a sequence of code   *)
(* points.                                                                 *)
(***************************************************************************)
RECURSIVE Utf8Encode(_)
\* str.encode('utf-8') for code points below 2048.
Utf8Encode(s) ==
    IF s = <<>> THEN <<>>
    ELSE LET c == Head(s)
         IN  (IF c < 128 THEN <<c>>
              ELSE <<192 + (c \div 64), 128 + (c % 64)>>) \o Utf8Encode(Tail(s))

Take(s, n) == IF Len(s) <= n THEN s ELSE SubSeq(s, 1, n)

\* bcrypt.hashpw(password, salt): the digest depends on the salt and on the
\* first 72 bytes of the password only.
BcryptTruncate(bytes) == Take(bytes, BcryptMaxBytes)
bcrypt_hashpw(bytes, salt) == [salt |-> salt, digest |-> BcryptTruncate(bytes)]

\* hash_password, for the salt gensalt() drew.
hash_password(password, salt) == bcrypt_hashpw(Utf8Encode(password), salt)

\* A stored hash whose salt part bcrypt cannot parse has this salt.
MalformedSalt == 0
\* bcrypt.checkpw raises ValueError("Invalid salt") when it cannot parse the
\* salt part of the stored hash.
checkpw_raises(hashed_password) == hashed_password.salt = MalformedSalt

\* verify_password: bcrypt.checkpw re-hashes with the stored salt and compares.
verify_password(password, hashed_password) ==
    bcrypt_hashpw(Utf8Encode(password), hashed_password.salt) = hashed_password

ShortPw(k) == <<96 + k>>
LongPw(k) == [i \in 1..(BcryptMaxBytes + 1) |-> IF i <= BcryptMaxBytes THEN 97 ELSE 96 + k]
Passwords == { ShortPw(1) } \cup { LongPw(k) : k \in 1..MaxPw }
Salts == 1..MaxSalt

(***************************************************************************)
(* ObjectId: a 96-bit number, written as 24 lower-case hex digits.         *)
(***************************************************************************)
HexDigits == <<"0","1","2","3","4","5","6","7","8","9","a","b","c","d","e","f">>
UpperHex == <<"0","1","2","3","4","5","6","7","8","9","A","B","C","D","E","F">>
HexChars == { HexDigits[i] : i \in 1..16 } \cup { UpperHex[i] : i \in 1..16 }
\* int(c, 16) for every hex digit of either case
HexValue == [c \in HexChars |-> (CHOOSE i \in 1..16 : HexDigits[i] = c \/ UpperHex[i] = c) - 1]
IsHexChar(c) == c \in HexChars

RECURSIVE HexDigitAt(_, _)
\* the hex digit of n at position p, counted from the right, from 0
HexDigitAt(n, p) == IF n = 0 THEN 0 ELSE IF p = 0 THEN n % 16 ELSE HexDigitAt(n \div 16, p - 1)

\* str(ObjectId): n written with exactly w lower-case hex digits.
ToHex(n, w) == [i \in 1..w |-> HexDigits[HexDigitAt(n, w - i) + 1]]
OidStr(oid) == ToHex(oid, ObjectIdHexLen)

RECURSIVE FromHex(_, _)
\* the number the first n hex digits of s spell
FromHex(s, n) == IF n = 0 THEN 0 ELSE 16 * FromHex(s, n - 1) + HexValue[s[n]]

\* A validity test that checks the digits and not the length.
ObjectIdValidAnyLength(s) == \A i \in 1..Len(s) : IsHexChar(s[i])

\* ObjectId(note_id) raises unless note_id is 24 hex digits of either case.
ObjectIdValid(s) == Len(s) = ObjectIdHexLen /\ \A i \in 1..Len(s) : IsHexChar(s[i])
ObjectId(s) == FromHex(s, Len(s))
\* "try: object_id = ObjectId(note_id) / except: raise HTTPException(400)":
\* the parsed id, or nothing when ObjectId raised
TryObjectId(s) == IF ObjectIdValid(s) THEN <<ObjectId(s)>> ELSE <<>>

UpperStr(s) == [i \in 1..Len(s) |-> IF \E j \in 1..16 : HexDigits[j] = s[i]
                                    THEN UpperHex[CHOOSE j \in 1..16 : HexDigits[j] = s[i]]
                                    ELSE s[i]]

\* The well-formed note ids requests carry: every id the store can generate
\* and the next one, and an upper-case spelling of the first.
ValidIdInputs ==
    { OidStr(n) : n \in FirstOid..(FirstOid + MaxNotes) } \cup { UpperStr(OidStr(FirstOid)) }
\* The malformed ones: a string one digit short and one with a non-hex
\* character.
MalformedIdInputs ==
    { SubSeq(OidStr(FirstOid), 2, ObjectIdHexLen), [OidStr(FirstOid) EXCEPT ![1] = "g"] }
NoId == <<>>

(***************************************************************************)
(* Note payloads.                                                          *)
(***************************************************************************)
Titles == <<"title-a", "", "title-c", "title-d">>
Contents == <<"enc-a", "enc-b", "enc-c", "enc-d">>
NoteSalts == <<"salt-a", "salt-b", "salt-c", "salt-d">>
Ivs == <<"iv-a", "iv-b", "iv-c", "iv-d">>

\* The NoteCreate body requests carry
NoteCreate(k) == [title |-> Titles[k], encrypted_content |-> Contents[k],
                  salt |-> NoteSalts[k], iv |-> Ivs[k]]
NoteCreateInputs == { NoteCreate(1) }
\* NoteUpdate bodies: any subset of the four fields, the others None; the
\* values differ from the created ones and include the empty title.
NoteUpdate(m, k) ==
    [title |-> IF "title" \in m THEN Titles[k] ELSE None,
     encrypted_content |-> IF "encrypted_content" \in m THEN Contents[k] ELSE None,
     salt |-> IF "salt" \in m THEN NoteSalts[k] ELSE None,
     iv |-> IF "iv" \in m THEN Ivs[k] ELSE None]
NoteFields == {"title", "encrypted_content", "salt", "iv"}
NoteUpdateInputs == { NoteUpdate(m, k + 1) : m \in SUBSET NoteFields, k \in 1..MaxText }
NoFields == [title |-> None, encrypted_content |-> None, salt |-> None, iv |-> None]

(***************************************************************************)
(* State.                                                                  *)
(***************************************************************************)
VARIABLES
    users_collection,   \* sequence of identity documents, in store order
    notes_collection,   \* sequence of note documents, in store order
    next_oid,           \* the ObjectId the store generates next
    now,                \* the wall clock, in ticks
    issued,             \* the tokens clients hold, each with the instant it was issued
    registered,         \* history: the (username, password) pairs registered
    created,            \* history: the NoteCreate body of each note not updated since
    req,                \* the request the last step handled ("tick" for a clock step)
    resp,               \* its response
    db_calls,           \* the store calls that request made, in order
    pending             \* by worker: the request it has suspended at an await, or Idle

vars == <<users_collection, notes_collection, next_oid, now, issued, registered, created,
          req, resp, db_calls, pending>>

(***************************************************************************)
(* Tokens.                                                                 *)
(***************************************************************************)
\* create_jwt_token; t1 and t2 are the two readings of datetime.utcnow().
\* jwt.encode writes exp and iat as whole seconds.
create_jwt_token(username, t1, t2) ==
    [kind |-> "jwt", sub |-> username,
     exp |-> (t1 + LifetimeTicks) \div TicksPerSecond,
     iat |-> t2 \div TicksPerSecond,
     key |-> JWT_SECRET_KEY]

MalformedToken == [kind |-> "garbage", sub |-> None, exp |-> 0, iat |-> 0, key |-> OtherKey]
MissingToken == [kind |-> "missing", sub |-> None, exp |-> 0, iat |-> 0, key |-> OtherKey]

\* A decode that still accepts a token at its exp second.
jwt_decode_late(token, t) ==
    /\ token.kind = "jwt"
    /\ token.key = JWT_SECRET_KEY
    /\ token.exp * TicksPerSecond >= t
    /\ token.iat * TicksPerSecond <= t

\* A decode that does not verify the signature.
jwt_decode_unsigned(token, t) ==
    /\ token.kind = "jwt"
    /\ token.exp * TicksPerSecond > t
    /\ token.iat * TicksPerSecond <= t

\* jwt.decode: structure, signature, exp against the current time (expired
\* when exp <= now), iat not in the future.
jwt_decode_ok(token, t) ==
    /\ token.kind = "jwt"
    /\ token.key = JWT_SECRET_KEY
    /\ token.exp * TicksPerSecond > t
    /\ token.iat * TicksPerSecond <= t

Ok(body) == [status |-> 200, detail |-> "", body |-> body]
HTTPException(status_code, detail) == [status |-> status_code, detail |-> detail, body |-> <<>>]

\* verify_jwt_token returns the subject
verify_jwt_token_ok(token, t) == jwt_decode_ok(token, t) /\ token.sub # None

\* A gate under which a newer token of the same identity revokes the older.
get_current_user_newest(cred, t) ==
    /\ cred.kind # "missing" /\ verify_jwt_token_ok(cred, t)
    /\ \A o \in issued : o.token.sub = cred.sub => o.token.iat <= cred.iat

\* get_current_user behind HTTPBearer: a request without credentials is
\* rejected by HTTPBearer, any other goes to verify_jwt_token.
get_current_user_ok(cred, t) == cred.kind # "missing" /\ verify_jwt_token_ok(cred, t)
get_current_user_error(cred) ==
    IF cred.kind = "missing" THEN HTTPException(403, "Not authenticated")
    ELSE HTTPException(401, "Invalid token")

\* A token for alice signed with another key.
ForgedTokens ==
    { [kind |-> "jwt", sub |-> "alice", exp |-> 2 * JWT_EXPIRATION_HOURS * SecondsPerHour,
       iat |-> 0, key |-> OtherKey] }
BadCredentials == ForgedTokens \cup {MalformedToken, MissingToken}
\* The credentials a request can carry: a token a client holds, or one of the
\* scenario's other credentials.
Credentials(S) == { h.token : h \in issued } \cup S.others

(***************************************************************************)
(* Requests.                                                               *)
(***************************************************************************)
Request(op, cred, username, password, note_id, fields) ==
    [op |-> op, cred |-> cred, username |-> username, password |-> password,
     note_id |-> note_id, fields |-> fields]

\* The event loop runs a handler until it awaits the store and may then run
\* another request; these are the tasks that can be suspended at once.
Workers == {"w1", "w2"}
Idle == Request("idle", MissingToken, None, <<>>, NoId, NoFields)
NoPending == [w \in Workers |-> Idle]

\* A lookup that never finds the identity.
FindUserMiss(username) == <<>>

\* users_collection.find_one({"username": username}): the first match in
\* store order, as a sequence of zero or one document
FindUser(username) ==
    LET hits == { i \in 1..Len(users_collection) : users_collection[i].username = username }
    IN  IF hits = {} THEN <<>>
        ELSE <<users_collection[CHOOSE i \in hits : \A j \in hits : i <= j]>>

\* What the clients hold after being handed a token at instant t: they keep
\* it, replace one of the same identity they held, or drop it.
Keep(token, t) ==
    LET h == [token |-> token, at |-> t]
        same == { o \in issued : o.token.sub = token.sub }
    IN  {issued} \cup { issued \cup {h} : x \in { y \in {1} : Cardinality(same \cup {h}) <= MaxTokens } }
                 \cup { (issued \ {old}) \cup {h} : old \in same }

Init ==
    /\ users_collection = <<>>
    /\ notes_collection = <<>>
    /\ next_oid = FirstOid
    /\ now = 0
    /\ issued = {}
    /\ registered = {}
    /\ created = {}
    /\ req = Request("start", MissingToken, None, <<>>, NoId, NoFields)
    /\ resp = Ok(<<>>)
    /\ db_calls = <<>>
    /\ pending = NoPending

\* The clock moves forward.
Tick(S) ==
    /\ \E t \in S.clock : t > now /\ now' = t
    /\ req' = Request("tick", MissingToken, None, <<>>, NoId, NoFields)
    /\ resp' = Ok(<<>>)
    /\ db_calls' = <<>>
    /\ UNCHANGED <<users_collection, notes_collection, next_oid, issued, registered, created>>
    /\ UNCHANGED pending

TokenResponse(token, username) ==
    Ok(<<[access_token |-> token, token_type |-> "bearer", username |-> username]>>)

\* POST /api/auth/register
register_user(S) ==
    \E username \in S.names : \E password \in S.pws[username], salt \in Salts, t2 \in LaterReads(S.clock, now) :
        /\ req' = Request("register", MissingToken, username, password, NoId, NoFields)
        /\ IF FindUser(username) # <<>>
           THEN /\ resp' = HTTPException(400, "Username already exists")
                /\ db_calls' = <<"users.find_one">>
                /\ UNCHANGED <<users_collection, issued, registered, now>>
           ELSE LET token == create_jwt_token(username, now, t2)
                IN  /\ users_collection' = Append(users_collection,
                           [username |-> username,
                            password |-> hash_password(password, salt),
                            created_at |-> now])
                    /\ db_calls' = <<"users.find_one", "users.insert_one">>
                    /\ resp' = TokenResponse(token, username)
                    /\ issued' \in Keep(token, now)
                    /\ registered' = registered \cup {[username |-> username, password |-> password]}
                    /\ now' = t2
        /\ UNCHANGED <<notes_collection, next_oid, created>>
        /\ UNCHANGED pending

\* register_user up to the return of "await users_collection.find_one": a
\* request that finds the username is refused, any other is suspended with
\* the insert still to come.
register_find_one(S) ==
    \E w \in Workers, username \in S.names : \E password \in S.pws[username] :
        /\ pending[w] = Idle
        /\ IF FindUser(username) # <<>>
           THEN /\ req' = Request("register", MissingToken, username, password, NoId, NoFields)
                /\ resp' = HTTPException(400, "Username already exists")
                /\ db_calls' = <<"users.find_one">>
                /\ UNCHANGED pending
           ELSE /\ pending' = [pending EXCEPT
                                 ![w] = Request("register", MissingToken, username, password,
                                                NoId, NoFields)]
                /\ UNCHANGED <<req, resp, db_calls>>
        /\ UNCHANGED <<users_collection, notes_collection, next_oid, now, issued, registered, created>>

\* register_user from hash_password on: the insert, the token, the response.
register_insert_one(S) ==
    \E w \in Workers, salt \in Salts, t2 \in LaterReads(S.clock, now) :
        /\ pending[w].op = "register"
        /\ LET username == pending[w].username
               token == create_jwt_token(username, now, t2)
           IN  /\ users_collection' = Append(users_collection,
                      [username |-> username,
                       password |-> hash_password(pending[w].password, salt),
                       created_at |-> now])
               /\ req' = pending[w]
               /\ db_calls' = <<"users.find_one", "users.insert_one">>
               /\ resp' = TokenResponse(token, username)
               /\ issued' \in Keep(token, now)
               /\ registered' = registered \cup {[username |-> username,
                                                    password |-> pending[w].password]}
               /\ now' = t2
               /\ pending' = [pending EXCEPT ![w] = Idle]
        /\ UNCHANGED <<notes_collection, next_oid, created>>

\* A refusal that tells which of the two checks failed.
LoginRefusalTelling(found) ==
    HTTPException(401, IF found THEN "Invalid password" ELSE "Invalid username")

\* login_user's two refusals: no such username (found is false), password
\* not verified (found is true)
LoginRefusal(found) == HTTPException(401, "Invalid username or password")

\* POST /api/auth/login
login_user(S) ==
    \E username \in S.names : \E password \in S.pws[username], t2 \in LaterReads(S.clock, now) :
        /\ req' = Request("login", MissingToken, username, password, NoId, NoFields)
        /\ db_calls' = <<"users.find_one">>
        /\ LET db_user == FindUser(username)
           IN  IF db_user = <<>>
               THEN /\ resp' = LoginRefusal(FALSE)
                    /\ UNCHANGED <<issued, now>>
               ELSE IF checkpw_raises(db_user[1].password)
               THEN \* ValueError, caught by "except Exception"
                    /\ resp' = HTTPException(500, "Login failed")
                    /\ UNCHANGED <<issued, now>>
               ELSE IF ~verify_password(password, db_user[1].password)
               THEN /\ resp' = LoginRefusal(TRUE)
                    /\ UNCHANGED <<issued, now>>
               ELSE LET token == create_jwt_token(username, now, t2)
                    IN  /\ resp' = TokenResponse(token, username)
                        /\ issued' \in Keep(token, now)
                        /\ now' = t2
        /\ UNCHANGED <<users_collection, notes_collection, next_oid, registered, created>>
        /\ UNCHANGED pending

\* What corrupted storage can leave in an identity's password field: a
\* string bcrypt cannot parse at all, and a hash cut after its salt part.
CorruptHashes ==
    { [salt |-> MalformedSalt, digest |-> <<>>] } \cup { [salt |-> k, digest |-> <<>>] : k \in Salts }

\* The storage corrupts the password field of one identity; no handler
\* does this.
corrupt_hash(S) ==
    \E i \in 1..Len(users_collection), h \in CorruptHashes :
        /\ users_collection[i].username \in S.names
        /\ users_collection' = [users_collection EXCEPT ![i].password = h]
        /\ req' = Request("corrupt", MissingToken, users_collection[i].username, <<>>, NoId, NoFields)
        /\ resp' = Ok(<<>>)
        /\ db_calls' = <<>>
        /\ UNCHANGED <<notes_collection, next_oid, now, issued, registered, created, pending>>

\* GET /api/auth/me
get_current_user_info(S) ==
    \E cred \in Credentials(S) :
        /\ req' = Request("whoami", cred, None, <<>>, NoId, NoFields)
        /\ db_calls' = <<>>
        /\ resp' = IF get_current_user_ok(cred, now)
                   THEN Ok(<<[username |-> cred.sub]>>)
                   ELSE get_current_user_error(cred)
        /\ UNCHANGED <<users_collection, notes_collection, next_oid, now, issued, registered, created>>
        /\ UNCHANGED pending

(***************************************************************************)
(* Note repository.                                                        *)
(***************************************************************************)
\* A response built with salt and iv exchanged.
NoteResponseSwapped(note) ==
    [id |-> ToHex(note._id, ObjectIdHexLen), title |-> note.title,
     encrypted_content |-> note.encrypted_content, salt |-> note.iv, iv |-> note.salt,
     created_at |-> note.created_at, updated_at |-> note.updated_at,
     username |-> note.username]

\* NoteResponse(**note) after note["id"] = str(note["_id"]); note.pop("_id")
NoteResponse(note) ==
    [id |-> OidStr(note._id), title |-> note.title,
     encrypted_content |-> note.encrypted_content, salt |-> note.salt, iv |-> note.iv,
     created_at |-> note.created_at, updated_at |-> note.updated_at,
     username |-> note.username]

\* A filter on the id alone.
MatchesAnyOwner(object_id, current_user) ==
    { i \in 1..Len(notes_collection) : notes_collection[i]._id = object_id }

\* The filter {"_id": object_id, "username": current_user}: positions of the
\* matching documents
Matches(object_id, current_user) ==
    { i \in 1..Len(notes_collection) :
        /\ notes_collection[i]._id = object_id
        /\ notes_collection[i].username = current_user }
FirstOf(hits) == CHOOSE i \in hits : \A j \in hits : i <= j

\* A find() without the owner filter.
OwnedByAnyone(current_user) == notes_collection

\* The filter {"username": current_user}
OwnedBy(current_user) ==
    LET Mine(note) == note.username = current_user
    IN  SelectSeq(notes_collection, Mine)

RemoveAt(seq, i) == SubSeq(seq, 1, i - 1) \o SubSeq(seq, i + 1, Len(seq))

\* str(e) of an HTTPException
StrOfException(e) ==
    CASE e.status = 404 -> "404: Note not found"
      [] OTHER -> e.detail

\* "except Exception as e: raise HTTPException(status_code=500, detail=str(e))"
\* around a handler body: HTTPException is an Exception, so one raised inside
\* the body is caught and leaves as a 500.
CatchAll(e) == HTTPException(500, StrOfException(e))

\* An update_dict built with "if note_update.title:" and so on, which drops
\* empty strings.
update_dict_truthy(note_update, t) ==
    [updated_at |-> t,
     title |-> IF note_update.title = "" THEN None ELSE note_update.title,
     encrypted_content |-> IF note_update.encrypted_content = "" THEN None
                           ELSE note_update.encrypted_content,
     salt |-> IF note_update.salt = "" THEN None ELSE note_update.salt,
     iv |-> IF note_update.iv = "" THEN None ELSE note_update.iv]

\* update_note's update_dict: updated_at always, each field when it is not
\* None; a key the dict lacks is written None here
update_dict(note_update, t) ==
    [updated_at |-> t,
     title |-> note_update.title,
     encrypted_content |-> note_update.encrypted_content,
     salt |-> note_update.salt,
     iv |-> note_update.iv]

\* An update that replaces the document by the update dict, as replace_one
\* would: the keys the dict lacks, the owner among them, are lost.
ApplyReplace(doc, update) ==
    [doc EXCEPT !.updated_at = update.updated_at,
                !.title = update.title,
                !.encrypted_content = update.encrypted_content,
                !.salt = update.salt,
                !.iv = update.iv,
                !.username = None]

\* {"$set": update} applied to a document: the keys the dict holds replace
\* the document's, every other key stays
ApplySet(doc, update) ==
    [doc EXCEPT !.updated_at = update.updated_at,
                !.title = IF update.title = None THEN @ ELSE update.title,
                !.encrypted_content = IF update.encrypted_content = None THEN @
                                      ELSE update.encrypted_content,
                !.salt = IF update.salt = None THEN @ ELSE update.salt,
                !.iv = IF update.iv = None THEN @ ELSE update.iv]

\* POST /api/notes
create_note(S) ==
    \E cred \in Credentials(S), note \in S.creates, t2 \in LaterReads(S.clock, now) :
        /\ req' = Request("create_note", cred, None, <<>>, NoId, note)
        /\ IF ~get_current_user_ok(cred, now)
           THEN /\ resp' = get_current_user_error(cred)
                /\ db_calls' = <<>>
                /\ UNCHANGED <<notes_collection, next_oid, now, created>>
           ELSE LET note_dict == [_id |-> next_oid,
                                  title |-> note.title,
                                  encrypted_content |-> note.encrypted_content,
                                  salt |-> note.salt,
                                  iv |-> note.iv,
                                  username |-> cred.sub,
                                  created_at |-> now,
                                  updated_at |-> t2]
                IN  /\ next_oid < FirstOid + MaxNotes
                    /\ notes_collection' = Append(notes_collection, note_dict)
                    /\ next_oid' = next_oid + 1
                    /\ db_calls' = <<"notes.insert_one">>
                    /\ resp' = Ok(<<NoteResponse(note_dict)>>)
                    /\ now' = t2
                    /\ created' = created \cup {[id |-> next_oid, body |-> note]}
        /\ UNCHANGED <<users_collection, issued, registered>>
        /\ UNCHANGED pending

\* GET /api/notes
get_notes(S) ==
    \E cred \in Credentials(S) :
        /\ req' = Request("get_notes", cred, None, <<>>, NoId, NoFields)
        /\ IF ~get_current_user_ok(cred, now)
           THEN /\ resp' = get_current_user_error(cred)
                /\ db_calls' = <<>>
           ELSE LET found == OwnedBy(cred.sub)
                IN  /\ resp' = Ok([i \in 1..Len(found) |-> NoteResponse(found[i])])
                    /\ db_calls' = <<"notes.find">>
        /\ UNCHANGED <<users_collection, notes_collection, next_oid, now, issued, registered, created>>
        /\ UNCHANGED pending

\* GET /api/notes/{note_id}
get_note(S) ==
    \E cred \in Credentials(S), note_id \in S.ids :
        /\ req' = Request("get_note", cred, None, <<>>, note_id, NoFields)
        /\ IF ~get_current_user_ok(cred, now)
           THEN /\ resp' = get_current_user_error(cred)
                /\ db_calls' = <<>>
           ELSE \E parsed \in {TryObjectId(note_id)} :
                IF parsed = <<>>
                THEN /\ resp' = HTTPException(400, "Invalid note ID format")
                     /\ db_calls' = <<>>
                ELSE \E hits \in {Matches(parsed[1], cred.sub)} :
                     /\ db_calls' = <<"notes.find_one">>
                     /\ resp' = IF hits = {}
                                THEN CatchAll(HTTPException(404, "Note not found"))
                                ELSE Ok(<<NoteResponse(notes_collection[FirstOf(hits)])>>)
        /\ UNCHANGED <<users_collection, notes_collection, next_oid, now, issued, registered, created>>
        /\ UNCHANGED pending

\* PUT /api/notes/{note_id}
update_note(S) ==
    \E cred \in Credentials(S), note_id \in S.ids, note_update \in S.updates :
        /\ req' = Request("update_note", cred, None, <<>>, note_id, note_update)
        /\ IF ~get_current_user_ok(cred, now)
           THEN /\ resp' = get_current_user_error(cred)
                /\ db_calls' = <<>>
                /\ UNCHANGED <<notes_collection, created>>
           ELSE \E parsed \in {TryObjectId(note_id)} :
                IF parsed = <<>>
                THEN /\ resp' = HTTPException(400, "Invalid note ID format")
                     /\ db_calls' = <<>>
                     /\ UNCHANGED <<notes_collection, created>>
                ELSE \E hits \in {Matches(parsed[1], cred.sub)} :
                     IF hits = {}
                     THEN /\ db_calls' = <<"notes.update_one">>
                          /\ resp' = CatchAll(HTTPException(404, "Note not found"))
                          /\ UNCHANGED <<notes_collection, created>>
                     ELSE \E note \in {ApplySet(notes_collection[FirstOf(hits)],
                                                update_dict(note_update, now))} :
                          /\ notes_collection' = [notes_collection EXCEPT ![FirstOf(hits)] = note]
                          /\ db_calls' = <<"notes.update_one", "notes.find_one">>
                          /\ resp' = Ok(<<NoteResponse(note)>>)
                          /\ created' = { c \in created : c.id # parsed[1] }
        /\ UNCHANGED <<users_collection, next_oid, now, issued, registered>>
        /\ UNCHANGED pending

\* update_note up to the return of "await notes_collection.update_one": a
\* request the gate, the id check or the filter stops is answered, any other
\* has written and is suspended with its re-read still to come.
update_note_update_one(S) ==
    \E w \in Workers, cred \in Credentials(S), note_id \in S.ids, note_update \in S.updates :
        /\ pending[w] = Idle
        /\ \E request \in {Request("update_note", cred, None, <<>>, note_id, note_update)} :
           IF ~get_current_user_ok(cred, now)
           THEN /\ req' = request
                /\ resp' = get_current_user_error(cred)
                /\ db_calls' = <<>>
                /\ UNCHANGED <<notes_collection, created, pending>>
           ELSE \E parsed \in {TryObjectId(note_id)} :
                IF parsed = <<>>
                THEN /\ req' = request
                     /\ resp' = HTTPException(400, "Invalid note ID format")
                     /\ db_calls' = <<>>
                     /\ UNCHANGED <<notes_collection, created, pending>>
                ELSE \E hits \in {Matches(parsed[1], cred.sub)} :
                     IF hits = {}
                     THEN /\ req' = request
                          /\ db_calls' = <<"notes.update_one">>
                          /\ resp' = CatchAll(HTTPException(404, "Note not found"))
                          /\ UNCHANGED <<notes_collection, created, pending>>
                     ELSE /\ notes_collection' =
                               [notes_collection EXCEPT
                                  ![FirstOf(hits)] = ApplySet(@, update_dict(note_update, now))]
                          /\ created' = { c \in created : c.id # parsed[1] }
                          /\ pending' = [pending EXCEPT ![w] = request]
                          /\ UNCHANGED <<req, resp, db_calls>>
        /\ UNCHANGED <<users_collection, next_oid, now, issued, registered>>

\* update_note from the return of "await notes_collection.find_one" on: the
\* re-read note is returned; when the filter matches nothing note is None
\* and note["_id"] raises TypeError, which leaves through "except Exception".
update_note_find_one(S) ==
    \E w \in Workers :
        /\ pending[w].op = "update_note"
        /\ req' = pending[w]
        /\ db_calls' = <<"notes.update_one", "notes.find_one">>
        /\ \E hits \in {Matches(ObjectId(pending[w].note_id), pending[w].cred.sub)} :
              resp' = IF hits = {}
                      THEN HTTPException(500, "'NoneType' object is not subscriptable")
                      ELSE Ok(<<NoteResponse(notes_collection[FirstOf(hits)])>>)
        /\ pending' = [pending EXCEPT ![w] = Idle]
        /\ UNCHANGED <<users_collection, notes_collection, next_oid, now, issued, registered, created>>

\* DELETE /api/notes/{note_id}
delete_note(S) ==
    \E cred \in Credentials(S), note_id \in S.ids :
        /\ req' = Request("delete_note", cred, None, <<>>, note_id, NoFields)
        /\ IF ~get_current_user_ok(cred, now)
           THEN /\ resp' = get_current_user_error(cred)
                /\ db_calls' = <<>>
                /\ UNCHANGED <<notes_collection, created>>
           ELSE \E parsed \in {TryObjectId(note_id)} :
                IF parsed = <<>>
                THEN /\ resp' = HTTPException(400, "Invalid note ID format")
                     /\ db_calls' = <<>>
                     /\ UNCHANGED <<notes_collection, created>>
                ELSE \E hits \in {Matches(parsed[1], cred.sub)} :
                     /\ db_calls' = <<"notes.delete_one">>
                     /\ IF hits = {}
                        THEN /\ resp' = CatchAll(HTTPException(404, "Note not found"))
                             /\ UNCHANGED <<notes_collection, created>>
                        ELSE /\ notes_collection' = RemoveAt(notes_collection, FirstOf(hits))
                             /\ resp' = Ok(<<[message |-> "Note deleted successfully"]>>)
                             /\ created' = { c \in created : c.id # parsed[1] }
        /\ UNCHANGED <<users_collection, next_oid, now, issued, registered>>
        /\ UNCHANGED pending

(***************************************************************************)
(* Specifications.  A scenario fixes the sets the requests' inputs are     *)
(* drawn from.                                                             *)
(***************************************************************************)
\* The same short password for every name
OnePassword == [u \in Usernames |-> { ShortPw(1) }]

Scenario(clock, names, pws, others, ids, creates, updates) ==
    [clock |-> clock, names |-> names, pws |-> pws, others |-> others,
     ids |-> ids, creates |-> creates, updates |-> updates]

\* Registration and login with every password, two readings of the clock.
\* Passwords requests carry: every one for alice, the short one for bob.
AuthPasswords == [u \in Usernames |-> IF u = "alice" THEN Passwords ELSE OnePassword[u]]
AuthScenario == Scenario(CoarseClock, Usernames, AuthPasswords, BadCredentials, {}, {}, {})

Next ==
    \/ Tick(AuthScenario)
    \/ register_user(AuthScenario)
    \/ login_user(AuthScenario)
    \/ get_current_user_info(AuthScenario)

Spec == Init /\ [][Next]_vars

\* One identity, every tick around the issue and the expiry of its tokens.
TokenScenario == Scenario(FineClock, {"alice"}, OnePassword, BadCredentials, {}, {}, {})

NextToken ==
    \/ Tick(TokenScenario)
    \/ register_user(TokenScenario)
    \/ login_user(TokenScenario)
    \/ get_current_user_info(TokenScenario)

SpecToken == Init /\ [][NextToken]_vars

\* The note scenarios start where alice and bob have registered at time 0
\* and hold the tokens registration returned.
RegisteredUser(username) ==
    [username |-> username, password |-> hash_password(ShortPw(1), 1), created_at |-> 0]

InitNotes ==
    /\ users_collection = <<RegisteredUser("alice"), RegisteredUser("bob")>>
    /\ notes_collection = <<>>
    /\ next_oid = FirstOid
    /\ now = 0
    /\ issued = { [token |-> create_jwt_token(u, 0, 0), at |-> 0] : u \in Usernames }
    /\ registered = { [username |-> u, password |-> ShortPw(1)] : u \in Usernames }
    /\ created = {}
    /\ req = Request("register", MissingToken, "bob", ShortPw(1), NoId, NoFields)
    /\ resp = TokenResponse(create_jwt_token("bob", 0, 0), "bob")
    /\ db_calls = <<"users.find_one", "users.insert_one">>
    /\ pending = NoPending

\* The update body that supplies all four fields.
FullUpdates == { NoteUpdate(NoteFields, 2) }

NotesClock == {0, LifetimeTicks + 1}

\* Both identities with their tokens, every well-formed note id.
NotesScenario ==
    Scenario(NotesClock, Usernames, OnePassword, {}, ValidIdInputs,
             NoteCreateInputs, FullUpdates)

NextNotes ==
    \/ Tick(NotesScenario)
    \/ create_note(NotesScenario)
    \/ get_notes(NotesScenario)
    \/ get_note(NotesScenario)
    \/ update_note(NotesScenario)
    \/ delete_note(NotesScenario)

SpecNotes == InitNotes /\ [][NextNotes]_vars

\* Every credential, the first note's id and the malformed ids.
GateIdInputs == { OidStr(FirstOid) } \cup MalformedIdInputs
GateScenario ==
    Scenario(NotesClock, Usernames, OnePassword, BadCredentials, GateIdInputs,
             NoteCreateInputs, FullUpdates)

NextGate ==
    \/ Tick(GateScenario)
    \/ create_note(GateScenario)
    \/ get_notes(GateScenario)
    \/ get_note(GateScenario)
    \/ update_note(GateScenario)
    \/ delete_note(GateScenario)

SpecGate == InitNotes /\ [][NextGate]_vars

UpdateClock == {0, 1}

\* The update scenario starts where alice has also created two notes at
\* time 0.
StoredNote(oid, username) ==
    [_id |-> oid, title |-> NoteCreate(1).title,
     encrypted_content |-> NoteCreate(1).encrypted_content,
     salt |-> NoteCreate(1).salt, iv |-> NoteCreate(1).iv,
     username |-> username, created_at |-> 0, updated_at |-> 0]

InitUpdate ==
    /\ users_collection = <<RegisteredUser("alice"), RegisteredUser("bob")>>
    /\ notes_collection = <<StoredNote(FirstOid, "alice"), StoredNote(FirstOid + 1, "alice")>>
    /\ next_oid = FirstOid + 2
    /\ now = 0
    /\ issued = { [token |-> create_jwt_token(u, 0, 0), at |-> 0] : u \in Usernames }
    /\ registered = { [username |-> u, password |-> ShortPw(1)] : u \in Usernames }
    /\ created = { [id |-> FirstOid, body |-> NoteCreate(1)], [id |-> FirstOid + 1, body |-> NoteCreate(1)] }
    /\ req = Request("create_note", create_jwt_token("alice", 0, 0), None, <<>>, NoId, NoteCreate(1))
    /\ resp = Ok(<<NoteResponse(StoredNote(FirstOid + 1, "alice"))>>)
    /\ db_calls = <<"notes.insert_one">>
    /\ pending = NoPending

\* Every partial update of the first note, the clock moving between them.
FirstNoteId == { OidStr(FirstOid) }
UpdateScenario ==
    Scenario(UpdateClock, Usernames, OnePassword, {}, FirstNoteId, {}, NoteUpdateInputs)

NextUpdate ==
    \/ Tick(UpdateScenario)
    \/ get_note(UpdateScenario)
    \/ update_note(UpdateScenario)
    \/ delete_note(UpdateScenario)

SpecUpdate == InitUpdate /\ [][NextUpdate]_vars

\* One identity that registers, logs in again and works on notes while its
\* tokens reach their expiry: the clock reads the start, the tick before one
\* token lifetime, one lifetime and two.
LifeClock == {0, LifetimeTicks - 1, LifetimeTicks, 2 * LifetimeTicks}
LifeScenario == Scenario(LifeClock, {"alice"}, OnePassword, {}, {}, NoteCreateInputs, {})

NextLife ==
    \/ Tick(LifeScenario)
    \/ register_user(LifeScenario)
    \/ login_user(LifeScenario)
    \/ get_current_user_info(LifeScenario)
    \/ create_note(LifeScenario)
    \/ get_notes(LifeScenario)

SpecLife == Init /\ [][NextLife]_vars

\* Logins of the two registered identities while the storage corrupts their
\* password hashes.
CorruptScenario == Scenario(NotesClock, Usernames, OnePassword, {}, {}, {}, {})

NextCorrupt ==
    \/ Tick(CorruptScenario)
    \/ login_user(CorruptScenario)
    \/ get_current_user_info(CorruptScenario)
    \/ corrupt_hash(CorruptScenario)

SpecCorrupt == InitNotes /\ [][NextCorrupt]_vars

\* Notes created and deleted while the clock can move between the two
\* readings create_note takes.
CreateScenario ==
    Scenario(UpdateClock, Usernames, OnePassword, {}, ValidIdInputs, NoteCreateInputs, {})

NextCreate ==
    \/ Tick(CreateScenario)
    \/ create_note(CreateScenario)
    \/ get_notes(CreateScenario)
    \/ delete_note(CreateScenario)

SpecCreate == InitNotes /\ [][NextCreate]_vars

\* Updates of alice's first note that interleave at their awaits with each
\* other and with deletes; two of the update bodies give the title different
\* values.
ConcurrentUpdates ==
    { NoteUpdate({"title"}, 2), NoteUpdate({"title"}, 3), NoteUpdate({"title", "salt"}, 4) }
ConcurrentScenario ==
    Scenario(UpdateClock, Usernames, OnePassword, {}, FirstNoteId, {}, ConcurrentUpdates)

NextConcurrent ==
    \/ Tick(ConcurrentScenario)
    \/ update_note_update_one(ConcurrentScenario)
    \/ update_note_find_one(ConcurrentScenario)
    \/ delete_note(ConcurrentScenario)
    \/ get_note(ConcurrentScenario)

SpecConcurrent == InitUpdate /\ [][NextConcurrent]_vars

\* Registrations that interleave at their awaits, and logins.
RaceScenario == Scenario(CoarseClock, Usernames, OnePassword, {}, {}, {}, {})

NextRace ==
    \/ Tick(RaceScenario)
    \/ register_find_one(RaceScenario)
    \/ register_insert_one(RaceScenario)
    \/ login_user(RaceScenario)

SpecRace == Init /\ [][NextRace]_vars

(***************************************************************************)
(* Properties.                                                             *)
(***************************************************************************)
NoteOps == {"create_note", "get_notes", "get_note", "update_note", "delete_note"}
ByIdOps == {"get_note", "update_note", "delete_note"}

\* A bearer token that is present, well formed, signed by the server and not
\* expired at instant t.
GoodToken(cred, t) ==
    /\ cred.kind = "jwt"
    /\ cred.key = JWT_SECRET_KEY
    /\ cred.sub \in Usernames
    /\ t < cred.exp * TicksPerSecond

\* A note id of 24 hexadecimal digits.
WellFormedId(note_id) ==
    /\ Len(note_id) = 24
    /\ \A i \in 1..Len(note_id) :
         note_id[i] \in {"0","1","2","3","4","5","6","7","8","9",
                         "a","b","c","d","e","f","A","B","C","D","E","F"}

DigitValue(c) ==
    CASE c = "0" -> 0 [] c = "1" -> 1 [] c = "2" -> 2 [] c = "3" -> 3 [] c = "4" -> 4
      [] c = "5" -> 5 [] c = "6" -> 6 [] c = "7" -> 7 [] c = "8" -> 8 [] c = "9" -> 9
      [] c \in {"a", "A"} -> 10 [] c \in {"b", "B"} -> 11 [] c \in {"c", "C"} -> 12
      [] c \in {"d", "D"} -> 13 [] c \in {"e", "E"} -> 14 [] c \in {"f", "F"} -> 15

RECURSIVE IdNumber(_, _)
\* The number the first n digits of a well-formed id spell, in either case.
IdNumber(note_id, n) ==
    IF n = 0 THEN 0 ELSE 16 * IdNumber(note_id, n - 1) + DigitValue(note_id[n])

\* The positions of the notes of a store that a request's note id names.
Named(store, note_id) ==
    IF ~WellFormedId(note_id) THEN {}
    ELSE LET v == IdNumber(note_id, 24)
         IN  { i \in 1..Len(store) : store[i]._id = v }

Range(seq) == { seq[i] : i \in 1..Len(seq) }

\* The public fields of a stored note, as a response carries them.
Shown(note) ==
    [id |-> OidStr(note._id), title |-> note.title,
     encrypted_content |-> note.encrypted_content, salt |-> note.salt, iv |-> note.iv,
     created_at |-> note.created_at, updated_at |-> note.updated_at,
     username |-> note.username]

\* C1: list_notes authenticated as X returns exactly the stored notes whose
\* owner is X, and get_note authenticated as X returns only a stored note
\* whose owner is X.
C1_OwnerScopedReads ==
    /\ (req.op = "get_notes" /\ GoodToken(req.cred, now)) =>
          /\ resp.status = 200
          /\ Range(resp.body) = { Shown(n) : n \in { m \in Range(notes_collection) : m.username = req.cred.sub } }
          /\ Len(resp.body) = Cardinality({ i \in 1..Len(notes_collection) : notes_collection[i].username = req.cred.sub })
    /\ (req.op = "get_note" /\ resp.status = 200) =>
          /\ resp.body[1].username = req.cred.sub
          /\ \E n \in Range(notes_collection) : n.username = req.cred.sub /\ Shown(n) = resp.body[1]

\* Witness of C1: a list that returned the caller's note while the store also
\* holds a note of the other identity.
C1_Witness ==
    /\ req.op = "get_notes" /\ resp.status = 200 /\ Len(resp.body) = 1
    /\ \E n \in Range(notes_collection) : n.username # req.cred.sub

\* C2 as claimed: get_note, update_note and delete_note with a valid token
\* and a well-formed id answer NotFound (404) when no note has the id and
\* when the note belongs to another identity.
C2_NotFoundOutcome ==
    [][ (/\ req'.op \in ByIdOps
         /\ GoodToken(req'.cred, now)
         /\ WellFormedId(req'.note_id)
         /\ \A i \in Named(notes_collection, req'.note_id) :
               notes_collection[i].username # req'.cred.sub)
        => resp'.status = 404 ]_vars

\* C3: an update_note or delete_note authenticated as B that names a note of
\* A leaves the note store unchanged, and get_note by the owner of a stored
\* note succeeds and returns it.
CrossOwnerWrite ==
    /\ req'.op \in {"update_note", "delete_note"}
    /\ GoodToken(req'.cred, now)
    /\ WellFormedId(req'.note_id)
    /\ \E i \in Named(notes_collection, req'.note_id) :
          notes_collection[i].username # req'.cred.sub

OwnerGetSucceeds ==
    (/\ req.op = "get_note"
     /\ GoodToken(req.cred, now)
     /\ \E i \in Named(notes_collection, req.note_id) :
           notes_collection[i].username = req.cred.sub)
    => /\ resp.status = 200
       /\ \E i \in Named(notes_collection, req.note_id) : resp.body = <<Shown(notes_collection[i])>>

C3_CrossOwnerWriteIsNoOp ==
    /\ [][CrossOwnerWrite => notes_collection' = notes_collection]_vars
    /\ []OwnerGetSucceeds

\* Witness of C3: bob's delete or update named alice's note, which is still
\* stored.
C3_Witness ==
    /\ req.op \in {"update_note", "delete_note"}
    /\ GoodToken(req.cred, now)
    /\ \E i \in Named(notes_collection, req.note_id) :
          notes_collection[i].username # req.cred.sub
    /\ resp.status # 200

\* C7: a note operation whose bearer token is missing, malformed, wrongly
\* signed or expired makes no store call, leaves the note store as it was and
\* is answered 401 or 403.
C7_GateBeforeStore ==
    [][ (req'.op \in NoteOps /\ ~GoodToken(req'.cred, now))
        => /\ db_calls' = <<>>
           /\ notes_collection' = notes_collection
           /\ next_oid' = next_oid
           /\ resp'.status \in {401, 403} ]_vars

\* Witness of C7: a note operation with an expired token of a registered
\* identity, rejected while notes are stored.
C7_Witness ==
    /\ req.op \in NoteOps
    /\ \E h \in issued : h.token = req.cred
    /\ ~GoodToken(req.cred, now)
    /\ resp.status = 401
    /\ notes_collection # <<>>

\* C9: get_note of a note that was created and not updated since returns the
\* title, encrypted_content, salt and iv of the create request.
C9_CreateGetRoundTrip ==
    (req.op = "get_note" /\ resp.status = 200) =>
        \A c \in created :
            OidStr(c.id) = resp.body[1].id =>
                /\ resp.body[1].title = c.body.title
                /\ resp.body[1].encrypted_content = c.body.encrypted_content
                /\ resp.body[1].salt = c.body.salt
                /\ resp.body[1].iv = c.body.iv

\* Witness of C9: a successful get_note of a note never updated.
C9_Witness ==
    /\ req.op = "get_note" /\ resp.status = 200
    /\ \E c \in created : OidStr(c.id) = resp.body[1].id

\* C10: get_note, update_note and delete_note with a valid token and a
\* syntactically invalid id answer 400, not 404, make no store call and leave
\* the note store as it was.
C10_MalformedId ==
    [][ (/\ req'.op \in ByIdOps
         /\ GoodToken(req'.cred, now)
         /\ ~WellFormedId(req'.note_id))
        => /\ resp'.status = 400
           /\ resp'.status # 404
           /\ db_calls' = <<>>
           /\ notes_collection' = notes_collection ]_vars

\* Witness of C10: a delete_note with a valid token and a malformed id,
\* rejected while notes are stored.
C10_Witness ==
    /\ req.op = "delete_note"
    /\ GoodToken(req.cred, now)
    /\ ~WellFormedId(req.note_id)
    /\ resp.status = 400
    /\ notes_collection # <<>>

\* C4 as claimed: login with a registered (username, password) pair succeeds
\* and returns a token, and login to a registered username with any other
\* password fails with InvalidCredentials (401).
C4_LoginChecksPassword ==
    (req.op = "login" /\ \E r \in registered : r.username = req.username) =>
        IF [username |-> req.username, password |-> req.password] \in registered
        THEN /\ resp.status = 200
             /\ resp.body[1].access_token.sub = req.username
        ELSE /\ resp.status = 401
             /\ resp.detail = "Invalid username or password"

\* C5: a register request fails with "Username already exists" (400) and
\* changes nothing exactly when an identity with that username is stored;
\* otherwise it succeeds and stores one identity with that username.
C5_RegisterUniqueness ==
    [][ req'.op = "register" =>
        IF \E i \in 1..Len(users_collection) : users_collection[i].username = req'.username
        THEN /\ resp'.status = 400
             /\ resp'.detail = "Username already exists"
             /\ users_collection' = users_collection
        ELSE /\ resp'.status = 200
             /\ resp'.body[1].username = req'.username
             /\ Len(users_collection') = Len(users_collection) + 1
             /\ users_collection'[Len(users_collection')].username = req'.username
             /\ SubSeq(users_collection', 1, Len(users_collection)) = users_collection ]_vars

\* Witness of C5: both usernames are registered and a further register of one
\* of them was refused.
C5_Witness ==
    /\ req.op = "register" /\ resp.status = 400
    /\ { users_collection[i].username : i \in 1..Len(users_collection) } = Usernames

\* The instant issue time + 24 hours of a held token.
IssuePlusLifetime(h) == h.at + JWT_EXPIRATION_HOURS * SecondsPerHour * TicksPerSecond
\* That instant cut down to a whole second: the token's exp claim.
ExpSecond(h) == (IssuePlusLifetime(h) \div TicksPerSecond) * TicksPerSecond

WhoamiAnswers(h, expiry) ==
    IF now < expiry
    THEN resp.status = 200 /\ resp.body = <<[username |-> h.token.sub]>>
    ELSE resp.status = 401

\* C6 as claimed: whoami with an issued token answers the username at every
\* instant before issue time + 24 hours and Unauthenticated from then on.
C6_ExpiryAtIssuePlus24h ==
    req.op = "whoami" =>
        \A h \in issued : h.token = req.cred => WhoamiAnswers(h, IssuePlusLifetime(h))

\* C6 amended: whoami with an issued token answers the username at every
\* instant before the token's exp claim, which is issue time + 24 hours cut
\* down to a whole second, and Unauthenticated from then on.
C6_ExpiryAtExpSecond ==
    req.op = "whoami" =>
        \A h \in issued : h.token = req.cred => WhoamiAnswers(h, ExpSecond(h))

\* Witness of C6: whoami refused at the very exp second of a token that was
\* issued within a second.
C6_Witness ==
    /\ req.op = "whoami" /\ resp.status = 401
    /\ \E h \in issued : h.token = req.cred /\ now = ExpSecond(h) /\ now < IssuePlusLifetime(h)

UpdateApplied(old, new, fields) ==
    /\ new.title = (IF fields.title # None THEN fields.title ELSE old.title)
    /\ new.encrypted_content = (IF fields.encrypted_content # None THEN fields.encrypted_content
                                ELSE old.encrypted_content)
    /\ new.salt = (IF fields.salt # None THEN fields.salt ELSE old.salt)
    /\ new.iv = (IF fields.iv # None THEN fields.iv ELSE old.iv)
    /\ new._id = old._id
    /\ new.username = old.username
    /\ new.created_at = old.created_at

SuccessfulUpdate == req'.op = "update_note" /\ resp'.status = 200

\* C8 as claimed: a successful update_note sets exactly the supplied fields,
\* keeps the others, the owner, the id and created_at, and makes updated_at
\* strictly later than it was.
C8_UpdateAdvancesUpdatedAt ==
    [][ SuccessfulUpdate =>
        \E named \in {Named(notes_collection, req'.note_id)} :
            /\ named # {}
            /\ \A i \in named :
                 /\ i <= Len(notes_collection')
                 /\ UpdateApplied(notes_collection[i], notes_collection'[i], req'.fields)
                 /\ notes_collection'[i].updated_at > notes_collection[i].updated_at ]_vars

\* C8 amended: a successful update_note sets exactly the supplied fields,
\* keeps the others, the owner, the id and created_at, and sets updated_at to
\* the clock reading of the request: never earlier than it was, and later
\* whenever the clock has moved on since.
C8_UpdateSetsUpdatedAt ==
    [][ SuccessfulUpdate =>
        \E named \in {Named(notes_collection, req'.note_id)} :
            /\ named # {}
            /\ \A i \in named :
                 /\ i <= Len(notes_collection')
                 /\ UpdateApplied(notes_collection[i], notes_collection'[i], req'.fields)
                 /\ notes_collection'[i].updated_at = now
                 /\ notes_collection'[i].updated_at >= notes_collection[i].updated_at
                 /\ (now > notes_collection[i].updated_at =>
                       notes_collection'[i].updated_at > notes_collection[i].updated_at) ]_vars

\* Witness of C8: a successful update that supplied the empty title and the
\* salt and omitted the other two, after the clock had moved.
C8_Witness ==
    /\ req.op = "update_note" /\ resp.status = 200
    /\ req.fields.title = "" /\ req.fields.salt # None
    /\ req.fields.encrypted_content = None /\ req.fields.iv = None
    /\ resp.body[1].updated_at > resp.body[1].created_at

\* C11: login answers the same generic refusal, in status, message and body,
\* when the username is not registered and when it is registered but the
\* password does not verify; a refused login has no other answer.
GenericRefusal == [status |-> 401, detail |-> "Invalid username or password", body |-> <<>>]

NotRegistered(username) == \A r \in registered : r.username # username
\* The password differs from the registered one within the bytes bcrypt hashes.
FailsVerification(username, password) ==
    \E r \in registered :
        /\ r.username = username
        /\ Take(Utf8Encode(r.password), 72) # Take(Utf8Encode(password), 72)

C11_LoginIndistinguishable ==
    req.op = "login" =>
        /\ (NotRegistered(req.username) \/ FailsVerification(req.username, req.password))
              => resp = GenericRefusal
        /\ resp.status # 200 => resp = GenericRefusal

\* Witness of C11: a login with a wrong password for a registered username
\* was refused while the other username is not registered.
C11_Witness ==
    /\ req.op = "login" /\ resp.status = 401
    /\ FailsVerification(req.username, req.password)
    /\ \E u \in Usernames : NotRegistered(u)

\* C12 as claimed: the identity store holds at most one identity per
\* username in every reachable state, also when register requests for the
\* same username interleave between the lookup and the insert.
C12_OneIdentityPerUsername ==
    \A i, j \in 1..Len(users_collection) :
        users_collection[i].username = users_collection[j].username => i = j

\* Every stored identity record stays at its place with its content.
IdentitiesKept ==
    \A i \in 1..Len(users_collection) :
        i <= Len(users_collection') /\ users_collection'[i] = users_collection[i]

\* The last request was a register for a stored username with a password
\* other than the registered one, and was refused.
RefusedRegister ==
    /\ req.op = "register" /\ resp.status = 400
    /\ \E r \in registered : r.username = req.username /\ r.password # req.password

\* C13 as claimed: no operation mutates or deletes a stored identity record,
\* and after a refused register for the same username with a different
\* password, login with the original password succeeds and login with the
\* later password fails.
C13_IdentityImmutable ==
    /\ [][IdentitiesKept]_vars
    /\ [][ (RefusedRegister /\ req'.op = "login" /\ req'.username = req.username) =>
            /\ [username |-> req'.username, password |-> req'.password] \in registered
                  => resp'.status = 200
            /\ req'.password = req.password => resp'.status = 401 ]_vars

\* The gate of every authenticated operation accepts the token now.
Accepted(token) == get_current_user_ok(token, now)
\* The instant the token's exp claim names.
ExpiresAt(token) == token.exp * TicksPerSecond

\* C14: for every token a client holds, no step (a login or registration of
\* the same username, a note operation, the clock) makes an unexpired token
\* refused or changes its expiry: it is accepted exactly while the clock is
\* before its exp instant, and once refused it stays refused; a token a
\* login issues is accepted and expires 24 hours after its issue, whatever
\* tokens were issued before; and the answer to a request that carries a
\* held token agrees with that.
C14_TokenLifeOneWay ==
    [][ /\ \A h \in issued :
              /\ Accepted(h.token) <=> now < ExpiresAt(h.token)
              /\ Accepted(h.token)' <=> now' < ExpiresAt(h.token)
              /\ ~Accepted(h.token) => ~Accepted(h.token)'
        /\ \A h \in issued' \ issued :
              /\ Accepted(h.token)'
              /\ h.token.exp = (h.at + LifetimeTicks) \div TicksPerSecond
        /\ \A h \in issued :
              (req'.cred = h.token /\ req'.op \in {"whoami", "create_note", "get_notes"}) =>
                  (resp'.status = 200 <=> now < ExpiresAt(h.token)) ]_vars

\* Witness of C14: of two tokens of one identity a client holds, the one
\* issued first has expired and was refused, the one a later login issued is
\* still accepted, and a note is stored.
C14_Witness ==
    /\ req.op \in {"whoami", "get_notes"} /\ resp.status = 401
    /\ \E h \in issued : h.token = req.cred /\ now >= ExpiresAt(h.token)
    /\ \E h \in issued : h.token.sub = req.cred.sub /\ h.token # req.cred /\ Accepted(h.token)
    /\ notes_collection # <<>>

\* C15: a note enters the store only by a create_note request and then
\* carries the identity of that request's token as its owner, and no step,
\* update_note with any fields included, changes the owner of a stored note.
C15_OwnerFixed ==
    [][ /\ (req'.op = "create_note" /\ resp'.status = 200) =>
              /\ GoodToken(req'.cred, now)
              /\ Len(notes_collection') = Len(notes_collection) + 1
              /\ notes_collection'[Len(notes_collection')].username = req'.cred.sub
              /\ resp'.body[1].username = req'.cred.sub
        /\ \A j \in 1..Len(notes_collection') :
              \/ \E i \in 1..Len(notes_collection) :
                    /\ notes_collection[i]._id = notes_collection'[j]._id
                    /\ notes_collection[i].username = notes_collection'[j].username
              \/ /\ req'.op = "create_note" /\ resp'.status = 200
                 /\ j = Len(notes_collection')
                 /\ \A i \in 1..Len(notes_collection) :
                       notes_collection[i]._id # notes_collection'[j]._id ]_vars

\* Witness of C15: an update_note that supplied all four fields succeeded
\* while both identities own a stored note.
C15_Witness ==
    /\ req.op = "update_note" /\ resp.status = 200
    /\ \A f \in NoteFields : req.fields[f] # None
    /\ resp.body[1].username = req.cred.sub
    /\ { notes_collection[i].username : i \in 1..Len(notes_collection) } = Usernames

\* The stored password hash of the identity a login names is malformed.
StoredHashMalformed(username) ==
    \E i \in 1..Len(users_collection) :
        /\ users_collection[i].username = username
        /\ \A j \in 1..(i - 1) : users_collection[j].username # username
        /\ users_collection[i].password \in CorruptHashes

\* C16 as claimed: a login for an identity whose stored hash is malformed is
\* refused with InvalidCredentials (401, the generic message) and with no
\* other failure.
C16_MalformedHashRefused ==
    (req.op = "login" /\ StoredHashMalformed(req.username)) =>
        /\ resp.status = 401
        /\ resp.detail = "Invalid username or password"

\* C17 as claimed: the note a successful create_note returns has an id no
\* note stored so far has had (every id given out so far is below
\* next_oid), and its created_at equals its updated_at, in the response and
\* in the store.
C17_FreshIdSameInstant ==
    [][ (req'.op = "create_note" /\ resp'.status = 200) =>
          /\ WellFormedId(resp'.body[1].id)
          /\ IdNumber(resp'.body[1].id, 24) >= next_oid
          /\ \A i \in 1..Len(notes_collection) :
                OidStr(notes_collection[i]._id) # resp'.body[1].id
          /\ resp'.body[1].created_at = resp'.body[1].updated_at
          /\ notes_collection'[Len(notes_collection')].created_at
                = notes_collection'[Len(notes_collection')].updated_at ]_vars

\* The step completes an update_note that had written and was suspended.
UpdateCompletes ==
    \E w \in Workers :
        /\ pending[w].op = "update_note"
        /\ pending'[w] = Idle
        /\ req' = pending[w]

\* C18 as claimed: an update_note by the owner whose write found the note
\* answers the updated Note or NotFound (404) and no other failure, whatever
\* runs between its write and its re-read, a delete_note of the same note by
\* the same owner included.
C18_UpdateVersusDelete ==
    [][ UpdateCompletes =>
          \/ resp'.status = 404
          \/ /\ resp'.status = 200
             /\ resp'.body[1].id = OidStr(IdNumber(req'.note_id, 24))
             /\ resp'.body[1].username = req'.cred.sub ]_vars

\* C19 as claimed: the Note a successful update_note returns carries the
\* request's value in every field the request supplied, whatever other
\* update_note requests of the same owner on the same note run between its
\* write and its re-read.
C19_UpdateReturnsOwnFields ==
    [][ (UpdateCompletes /\ resp'.status = 200) =>
          \A f \in NoteFields :
              req'.fields[f] # None => resp'.body[1][f] = req'.fields[f] ]_vars
====
